---- MODULE Spec2Model ----
(***************************************************************************)
(* Callback handlers of the Spotted DMI bot                                *)
(* (src/modules/handlers/callback_handlers.py).                            *)
(*                                                                         *)
(* One pending post (one identity in the admin group) is voted on by the   *)
(* admins; one published post collects reactions and reports.  The host    *)
(* may dispatch callbacks concurrently, and the handlers take no lock, so  *)
(* every call a handler makes to the store or to the bot is one step and   *)
(* the steps of different callbacks interleave; so do the steps of         *)
(* meme_callback around the handler it calls.                              *)
(***************************************************************************)
EXTENDS Integers, FiniteSets, Sequences, TLC

\* ---------------------------------------------------------------- bounds
NumAdmins == 3
MaxQuorum == 2

NumVoters == 2
NumCategories == 2
\* a reporter asks for the report conversation at most this many times
MaxForwards == 2
\* the vote_callback calls the host runs at the same time
MaxInFlight == 2

Admins == 1..NumAdmins
Voters == 1..NumVoters
\* the execution contexts the host runs vote_callback in
Slots == 1..MaxInFlight
\* the keys of REACTION (keyboard_util), numbered from 0
Categories == 0..(NumCategories - 1)
\* the args a vote token can carry: the categories and one stale value
VoteArgs == 0..NumCategories
\* the message id of the published post in the channel
PostId == 1

\* the sentinel set_admin_vote returns when the vote did not change
NoChange == -1

VARIABLES
    quorum,       \* config_map['meme']['n_votes']
    comments,     \* config_map['meme']['comments']
    posted,       \* per admin: the message id send_post_to returned to the running handler
    pending,      \* the PendingPost row exists in the store
    admin_votes,  \* rows <<admin, approval>> of the pending post
    pc,           \* per admin: position inside approve_yes/approve_no
    nPublished,   \* posts sent to the channel (PublishedPost rows created)
    bot_data,     \* published message ids that carry the submitter's id
    delivered,    \* outcome notifications received by the submitter
    warnings,     \* logger.warning calls (notification failed)
    shown,        \* show_admins_votes calls, per direction
    ret,          \* the tuple the last finished handler returned
    hist,         \* history: the clicks so far, while they are approve clicks of distinct admins
    prev,         \* history: the vote the last voting admin held before voting
    user_votes,   \* rows <<voter, category>> of the published post
    vpc,          \* per running vote_callback: position inside it
    vwho,         \* per running vote_callback: info['sender_id'] (0: none runs here)
    varg,         \* per running vote_callback: arg
    vadded,       \* per running vote_callback: what set_user_vote returned to it
    answer,       \* per voter: text of the last answerCallbackQuery
    vret,         \* the outcome of the last finished vote_callback
    reports,      \* per reporter: Report rows for (reporter, post)
    rpc,          \* per reporter: position inside report_spot_callback
    user_data,    \* per reporter: user_data['current_post_reported']
    conv,         \* per reporter: conversation state returned last
    forwarded,    \* per reporter: forward_message calls to the private chat
    prompted,     \* per reporter: send_message calls asking for the reason
    ranswer,      \* per reporter: text of the last answerCallbackQuery
    chat,         \* where the message with the pressed buttons is
    run,          \* per sender: the callback meme_callback is running for them
    token,        \* the callback data dispatched in the step just taken
    hret,         \* for the callback that ended in the step just taken: what
                  \* its handler returned or raised,
    edits,        \* the edit meme_callback issued for it,
    mret,         \* and what meme_callback returned or let escape, and its log
    credited      \* the users in the table of credited users

approvalVars == <<quorum, comments, posted, pending, admin_votes, pc, nPublished, bot_data,
                  delivered, warnings, shown, ret, hist, prev>>
tallyVars == <<user_votes, vpc, vwho, varg, vadded, answer, vret>>
reportVars == <<reports, rpc, user_data, conv, forwarded, prompted, ranswer>>

routerVars == <<chat, run, token, hret, edits, mret, credited>>

vars == <<approvalVars, tallyVars, reportVars, routerVars>>

\* ------------------------------------------------------- store operations
\* PendingPost.from_group: the post, or None when the row is gone
from_group(exists) == exists

\* number of admins whose vote is `approval`
get_votes(rows, approval) == Cardinality({r \in rows : r[2] = approval})

\* PendingPost.set_admin_vote: a duplicate click changes nothing and
\* returns the sentinel; otherwise the admin's row is inserted or
\* overwritten and the count of same-direction votes is returned
set_admin_vote(rows, admin, approval) ==
    IF <<admin, approval>> \in rows
    THEN [rows |-> rows, n |-> NoChange]
    ELSE LET new == {r \in rows : r[1] # admin} \cup {<<admin, approval>>}
         IN  [rows |-> new, n |-> get_votes(new, approval)]

\* PendingPost.delete_post: the row and its votes leave the store
delete_post_rows(rows) == {}

\* ------------------------------------------------- the handlers' decisions
\* approve_yes_callback line 154
M_YesVoteCall(rows, admin) == set_admin_vote(rows, admin, FALSE)
YesVoteCall(rows, admin) == set_admin_vote(rows, admin, TRUE)

\* approve_no_callback line 198
NoVoteCall(rows, admin) == set_admin_vote(rows, admin, FALSE)

\* lines 157 and 201: the post passed (or failed) the approval phase
M_QuorumReached(n, q) == n > q
QuorumReached(n, q) == n >= q

\* lines 177 and 216: the vote changed
M_VoteChanged(n) == TRUE
VoteChanged(n) == n # NoChange

\* lines 169-173 and 208-212: a failed notification is caught and logged,
\* and the handler goes on to the next statement
M_AfterNotify(ok, next) == IF ok THEN next ELSE "idle"
AfterNotify(ok, next) == next

\* what a handler returns: (message_text, reply_markup, output)
NoMarkup == [kind |-> "none", n |-> 0]
ReturnNone == [text |-> "none", markup |-> NoMarkup, output |-> "none"]
\* update_approve_kb(keyboard, pending_post, approve=n) / (..., reject=n)
ReturnKb(kind, n) ==
    [text |-> "none", markup |-> [kind |-> kind, n |-> n], output |-> "none"]

TerminalYes == {"yes_publish", "yes_credit", "yes_notify", "yes_show", "yes_delete"}
TerminalNo == {"no_notify", "no_show", "no_delete"}
Terminal == TerminalYes \cup TerminalNo

\* the history of clicks: nobody yet, one approve click, two approve
\* clicks of two admins, then a click of a third admin made when both
\* callbacks were over; every other history is "other"
NoClicks == [k |-> "none", by |-> {}]
Click(h, a, approval, idle) ==
    IF h.k = "none" /\ approval THEN [k |-> "one", by |-> {a}]
    ELSE IF h.k = "one" /\ approval /\ a \notin h.by THEN [k |-> "two", by |-> h.by \cup {a}]
    ELSE IF h.k = "two" /\ idle /\ a \notin h.by THEN [k |-> "third", by |-> {a}]
    ELSE [k |-> "other", by |-> {}]

\* the vote an admin holds
Held(rows, a) ==
    IF <<a, TRUE>> \in rows THEN "yes"
    ELSE IF <<a, FALSE>> \in rows THEN "no" ELSE "none"

\* ------------------------------------------------------------------- Init
\* the configurations explored: every quorum up to MaxQuorum, with the
\* comments switched on for the even ones and off for the odd ones
Comments(q) == q % 2 = 0

InitTally ==
    /\ user_votes = {}
    /\ vpc = [s \in Slots |-> "idle"]
    /\ vwho = [s \in Slots |-> 0]
    /\ varg = [s \in Slots |-> 0]
    /\ vadded = [s \in Slots |-> FALSE]
    /\ answer = [v \in Voters |-> "none"]
    /\ vret = [kind |-> "none", tally |-> [c \in Categories |-> 0]]

InitReport ==
    /\ reports = [u \in Voters |-> 0]
    /\ rpc = [u \in Voters |-> "idle"]
    /\ user_data = [u \in Voters |-> 0]
    /\ conv = [u \in Voters |-> "none"]
    /\ forwarded = [u \in Voters |-> 0]
    /\ prompted = [u \in Voters |-> 0]
    /\ ranswer = [u \in Voters |-> "none"]

InitApproval ==
    /\ quorum \in 1..MaxQuorum
    /\ comments = Comments(quorum)
    /\ posted = [a \in Admins |-> 0]
    /\ pending = TRUE
    /\ admin_votes = {}
    /\ pc = [a \in Admins |-> "idle"]
    /\ nPublished = 0
    /\ bot_data = {}
    /\ delivered = [pub |-> 0, rej |-> 0]
    /\ warnings = 0
    /\ shown = [yes |-> 0, no |-> 0]
    /\ ret = ReturnNone
    /\ hist = NoClicks
    /\ prev = "none"

\* what a dispatched handler hands back: (message_text, reply_markup,
\* output), the exception it raised instead, and what it logged
NoKeyboard == [kind |-> "none", n |-> 0, tally |-> [c \in Categories |-> 0]]
HandlerNone ==
    [text |-> "none", markup |-> NoKeyboard, output |-> "none", exc |-> "none", log |-> "none"]

\* no callback of this sender is running
IdleRun == [pc |-> "idle", data |-> <<>>, hret |-> HandlerNone, added |-> FALSE, post |-> 0]
\* no callback ended in the step just taken
NoReturn == [by |-> 0, raised |-> "none", output |-> "none", log |-> "none"]

InitRouter ==
    /\ run = [u \in Voters |-> IdleRun]
    /\ token = <<>>
    /\ hret = HandlerNone
    /\ edits = <<>>
    /\ mret = NoReturn
    /\ credited = {}

\* the handlers are called on the message of the pending post
Init == chat = "group" /\ InitApproval /\ InitTally /\ InitReport /\ InitRouter

\* ------------------------------------------------- approve_yes_callback
\* lines 150-153: load the pending post; return at once when it is gone
ApproveYesLoad(a) ==
    /\ pc[a] = "idle"
    /\ hist' = Click(hist, a, TRUE, \A b \in Admins : pc[b] = "idle")
    /\ IF from_group(pending)
       THEN /\ pc' = [pc EXCEPT ![a] = "yes_vote"]
            /\ ret' = ret
       ELSE /\ pc' = pc
            /\ ret' = ReturnNone
    /\ UNCHANGED <<quorum, comments, posted, pending, admin_votes, nPublished, bot_data,
                   delivered, warnings, shown>>
    /\ UNCHANGED <<tallyVars, reportVars, routerVars>>
    /\ prev' = prev

\* lines 154-157, 177-181: record the vote and branch on the count
ApproveYesVote(a) ==
    /\ pc[a] = "yes_vote"
    /\ LET r == YesVoteCall(admin_votes, a)
       IN  /\ admin_votes' = r.rows
           /\ IF QuorumReached(r.n, quorum)
              THEN /\ pc' = [pc EXCEPT ![a] = "yes_publish"]
                   /\ ret' = ret
              ELSE /\ pc' = [pc EXCEPT ![a] = "idle"]
                   /\ ret' = IF VoteChanged(r.n)
                             THEN ReturnKb("approve", r.n)
                             ELSE ReturnNone
    /\ UNCHANGED <<quorum, comments, posted, pending, nPublished, bot_data,
                   delivered, warnings, shown, hist>>
    /\ UNCHANGED <<tallyVars, reportVars, routerVars>>
    /\ prev' = Held(admin_votes, a)

\* lines 158-163: send the post to the channel
ApproveYesPublish(a) ==
    /\ pc[a] = "yes_publish"
    /\ nPublished' = nPublished + 1
    /\ IF comments
       THEN /\ posted' = [posted EXCEPT ![a] = nPublished + 1]
            /\ pc' = [pc EXCEPT ![a] = "yes_credit"]
       ELSE /\ posted' = posted
            /\ pc' = [pc EXCEPT ![a] = "yes_notify"]
    /\ UNCHANGED <<quorum, comments, pending, admin_votes, bot_data, delivered, warnings,
                   shown, ret, hist>>
    /\ UNCHANGED <<tallyVars, reportVars, routerVars>>
    /\ prev' = prev

\* line 164: remember the submitter under the published message
ApproveYesCredit(a) ==
    /\ pc[a] = "yes_credit"
    /\ bot_data' = bot_data \cup {posted[a]}
    /\ posted' = [posted EXCEPT ![a] = 0]
    /\ pc' = [pc EXCEPT ![a] = "yes_notify"]
    /\ UNCHANGED <<quorum, comments, pending, admin_votes, nPublished, delivered, warnings,
                   shown, ret, hist>>
    /\ UNCHANGED <<tallyVars, reportVars, routerVars>>
    /\ prev' = prev

\* lines 166-170: notify the submitter; BadRequest/Unauthorized is logged
ApproveYesNotify(a) ==
    /\ pc[a] = "yes_notify"
    /\ \E ok \in BOOLEAN :
         /\ IF ok
            THEN /\ delivered' = [delivered EXCEPT !.pub = @ + 1]
                 /\ warnings' = warnings
            ELSE /\ delivered' = delivered
                 /\ warnings' = warnings + 1
         /\ pc' = [pc EXCEPT ![a] = AfterNotify(ok, "yes_show")]
    /\ UNCHANGED <<quorum, comments, posted, pending, admin_votes, nPublished, bot_data,
                   shown, ret, hist>>
    /\ UNCHANGED <<tallyVars, reportVars, routerVars>>
    /\ prev' = prev

\* line 173: show the admins who approved
ApproveYesShow(a) ==
    /\ pc[a] = "yes_show"
    /\ shown' = [shown EXCEPT !.yes = @ + 1]
    /\ pc' = [pc EXCEPT ![a] = "yes_delete"]
    /\ UNCHANGED <<quorum, comments, posted, pending, admin_votes, nPublished, bot_data,
                   delivered, warnings, ret, hist>>
    /\ UNCHANGED <<tallyVars, reportVars, routerVars>>
    /\ prev' = prev

\* lines 174-175: remove the pending post and return
ApproveYesDelete(a) ==
    /\ pc[a] = "yes_delete"
    /\ pending' = FALSE
    /\ admin_votes' = delete_post_rows(admin_votes)
    /\ pc' = [pc EXCEPT ![a] = "idle"]
    /\ ret' = ReturnNone
    /\ UNCHANGED <<quorum, comments, posted, nPublished, bot_data, delivered, warnings,
                   shown, hist>>
    /\ UNCHANGED <<tallyVars, reportVars, routerVars>>
    /\ prev' = prev

\* -------------------------------------------------- approve_no_callback
\* lines 194-197
ApproveNoLoad(a) ==
    /\ pc[a] = "idle"
    /\ hist' = Click(hist, a, FALSE, \A b \in Admins : pc[b] = "idle")
    /\ IF from_group(pending)
       THEN /\ pc' = [pc EXCEPT ![a] = "no_vote"]
            /\ ret' = ret
       ELSE /\ pc' = pc
            /\ ret' = ReturnNone
    /\ UNCHANGED <<quorum, comments, posted, pending, admin_votes, nPublished, bot_data,
                   delivered, warnings, shown>>
    /\ UNCHANGED <<tallyVars, reportVars, routerVars>>
    /\ prev' = prev

\* lines 198-201, 216-220
ApproveNoVote(a) ==
    /\ pc[a] = "no_vote"
    /\ LET r == NoVoteCall(admin_votes, a)
       IN  /\ admin_votes' = r.rows
           /\ IF QuorumReached(r.n, quorum)
              THEN /\ pc' = [pc EXCEPT ![a] = "no_notify"]
                   /\ ret' = ret
              ELSE /\ pc' = [pc EXCEPT ![a] = "idle"]
                   /\ ret' = IF VoteChanged(r.n)
                             THEN ReturnKb("reject", r.n)
                             ELSE ReturnNone
    /\ UNCHANGED <<quorum, comments, posted, pending, nPublished, bot_data,
                   delivered, warnings, shown, hist>>
    /\ UNCHANGED <<tallyVars, reportVars, routerVars>>
    /\ prev' = Held(admin_votes, a)

\* lines 204-209
ApproveNoNotify(a) ==
    /\ pc[a] = "no_notify"
    /\ \E ok \in BOOLEAN :
         /\ IF ok
            THEN /\ delivered' = [delivered EXCEPT !.rej = @ + 1]
                 /\ warnings' = warnings
            ELSE /\ delivered' = delivered
                 /\ warnings' = warnings + 1
         /\ pc' = [pc EXCEPT ![a] = AfterNotify(ok, "no_show")]
    /\ UNCHANGED <<quorum, comments, posted, pending, admin_votes, nPublished, bot_data,
                   shown, ret, hist>>
    /\ UNCHANGED <<tallyVars, reportVars, routerVars>>
    /\ prev' = prev

\* line 212
ApproveNoShow(a) ==
    /\ pc[a] = "no_show"
    /\ shown' = [shown EXCEPT !.no = @ + 1]
    /\ pc' = [pc EXCEPT ![a] = "no_delete"]
    /\ UNCHANGED <<quorum, comments, posted, pending, admin_votes, nPublished, bot_data,
                   delivered, warnings, ret, hist>>
    /\ UNCHANGED <<tallyVars, reportVars, routerVars>>
    /\ prev' = prev

\* lines 213-214
ApproveNoDelete(a) ==
    /\ pc[a] = "no_delete"
    /\ pending' = FALSE
    /\ admin_votes' = delete_post_rows(admin_votes)
    /\ pc' = [pc EXCEPT ![a] = "idle"]
    /\ ret' = ReturnNone
    /\ UNCHANGED <<quorum, comments, posted, nPublished, bot_data, delivered, warnings,
                   shown, hist>>
    /\ UNCHANGED <<tallyVars, reportVars, routerVars>>
    /\ prev' = prev

Next ==
    \E a \in Admins :
        \/ ApproveYesLoad(a)
        \/ ApproveYesVote(a)
        \/ ApproveYesPublish(a)
        \/ ApproveYesCredit(a)
        \/ ApproveYesNotify(a)
        \/ ApproveYesShow(a)
        \/ ApproveYesDelete(a)
        \/ ApproveNoLoad(a)
        \/ ApproveNoVote(a)
        \/ ApproveNoNotify(a)
        \/ ApproveNoShow(a)
        \/ ApproveNoDelete(a)

Spec == Init /\ [][Next]_vars

\* ------------------------------------------------------ vote_callback
\* PublishedPost.from_channel: the post, or None when there is no row
from_channel(n) == n >= 1

\* PublishedPost.set_user_vote: a vote outside the enumeration is
\* refused and nothing is stored; the same category again retracts the
\* vote; any other category replaces whatever the voter held
set_user_vote(rows, voter, vote) ==
    IF vote \notin Categories
    THEN [rows |-> rows, was_added |-> FALSE]
    ELSE IF <<voter, vote>> \in rows
    THEN [rows |-> rows \ {<<voter, vote>>}, was_added |-> FALSE]
    ELSE [rows |-> {r \in rows : r[1] # voter} \cup {<<voter, vote>>},
          was_added |-> TRUE]

\* line 235: the vote is cast under the sender's id
M_UserVoteCall(rows, sender, arg) ==
    set_user_vote({r \in rows : r[1] = sender}, sender, arg)
UserVoteCall(rows, sender, arg) == set_user_vote(rows, sender, arg)

\* the characters of the decimal digits
DigitChar(k) == <<"0", "1", "2", "3", "4", "5", "6", "7", "8", "9">>[k + 1]
\* the key of REACTION for a category
ReactionKeyOf(c) == <<DigitChar(c)>>
\* lines 238 and 240: REACTION[arg] raises KeyError for any other arg
M_ReactionKey(arg) == TRUE
ReactionKey(arg) == \E c \in Categories : arg = ReactionKeyOf(c)

\* lines 237-240: the text answered to the voter
M_AnswerText(was_added) == "added"
AnswerText(was_added) == IF was_added THEN "added" ELSE "removed"

\* update_vote_kb: the counts per category shown on the keyboard
update_vote_kb(rows) ==
    [c \in Categories |-> Cardinality({r \in rows : r[2] = c})]

VoteReturn(kind, rows) == [kind |-> kind, tally |-> update_vote_kb(rows)]

\* line 234: load the published post; on None line 235 raises
\* AttributeError, which meme_callback does not catch.  The host starts
\* the callback of any voter, the same voter's included, in its first
\* free execution context
VoteLoad(s, v, arg) ==
    /\ vpc[s] = "idle"
    /\ \A t \in 1..(s - 1) : vpc[t] # "idle"
    /\ IF from_channel(nPublished)
       THEN /\ vpc' = [vpc EXCEPT ![s] = "set"]
            /\ vwho' = [vwho EXCEPT ![s] = v]
            /\ varg' = [varg EXCEPT ![s] = arg]
            /\ vret' = vret
       ELSE /\ vpc' = vpc
            /\ vwho' = vwho
            /\ varg' = varg
            /\ vret' = VoteReturn("AttributeError", user_votes)
    /\ UNCHANGED <<user_votes, vadded, answer>>
    /\ UNCHANGED <<approvalVars, reportVars, routerVars>>

\* line 235: the store toggles the vote
VoteSet(s) ==
    /\ vpc[s] = "set"
    /\ LET r == UserVoteCall(user_votes, vwho[s], varg[s])
       IN  /\ user_votes' = r.rows
           /\ vadded' = [vadded EXCEPT ![s] = r.was_added]
    /\ vpc' = [vpc EXCEPT ![s] = "answer"]
    /\ UNCHANGED <<vwho, varg, answer, vret>>
    /\ UNCHANGED <<approvalVars, reportVars, routerVars>>

\* lines 237-240: answer the query; REACTION[arg] raises KeyError for an
\* arg outside the enumeration; arg and was_added are not read again
VoteAnswer(s) ==
    /\ vpc[s] = "answer"
    /\ IF ReactionKey(ReactionKeyOf(varg[s]))
       THEN /\ answer' = [answer EXCEPT ![vwho[s]] = AnswerText(vadded[s])]
            /\ vpc' = [vpc EXCEPT ![s] = "render"]
            /\ vwho' = vwho
            /\ vret' = vret
       ELSE /\ answer' = answer
            /\ vpc' = [vpc EXCEPT ![s] = "idle"]
            /\ vwho' = [vwho EXCEPT ![s] = 0]
            /\ vret' = VoteReturn("KeyError", user_votes)
    /\ varg' = [varg EXCEPT ![s] = 0]
    /\ vadded' = [vadded EXCEPT ![s] = FALSE]
    /\ UNCHANGED user_votes
    /\ UNCHANGED <<approvalVars, reportVars, routerVars>>

\* lines 242-243: return the keyboard with the current tally
VoteRender(s) ==
    /\ vpc[s] = "render"
    /\ vret' = VoteReturn("kb", user_votes)
    /\ vpc' = [vpc EXCEPT ![s] = "idle"]
    /\ vwho' = [vwho EXCEPT ![s] = 0]
    /\ UNCHANGED <<user_votes, varg, vadded, answer>>
    /\ UNCHANGED <<approvalVars, reportVars, routerVars>>

\* the reactions are cast on a post that left the approval phase
InitResolved ==
    /\ quorum = 1
    /\ comments = Comments(quorum)
    /\ posted = [a \in Admins |-> 0]
    /\ pending = FALSE
    /\ admin_votes = {}
    /\ pc = [a \in Admins |-> "idle"]
    /\ nPublished \in 0..1
    /\ bot_data = IF comments THEN 1..nPublished ELSE {}
    /\ delivered = [pub |-> nPublished, rej |-> 1 - nPublished]
    /\ warnings = 0
    /\ shown = [yes |-> nPublished, no |-> 1 - nPublished]
    /\ ret = ReturnNone
    /\ hist = NoClicks
    /\ prev = "none"

\* the handlers are called on the published post
InitPublic == chat = "channel" /\ InitResolved /\ InitTally /\ InitReport /\ InitRouter

\* the reactions explored: the first and the last user press the
\* buttons of the first two categories or send one stale value
Reactors == {1, NumVoters}
ReactionArgs == {0, 1, NumCategories}

NextTally ==
    \E s \in Slots :
        \/ \E v \in Reactors : \E arg \in ReactionArgs : VoteLoad(s, v, arg)
        \/ VoteSet(s)
        \/ VoteAnswer(s)
        \/ VoteRender(s)

SpecTally == InitPublic /\ [][NextTally]_vars

\* ------------------------------------------------ report_spot_callback
\* Report.get_post_report: the report, or None
get_post_report(rows, u) == rows[u] >= 1

\* line 265: this user has already reported this post
M_AlreadyReported(report) == FALSE
AlreadyReported(report) == report

\* lines 260-265: probe the store for a report of this user on the post
ReportProbe(u) ==
    /\ rpc[u] = "idle"
    /\ IF AlreadyReported(get_post_report(reports, u))
       THEN rpc' = [rpc EXCEPT ![u] = "already"]
       ELSE /\ forwarded[u] < MaxForwards
            /\ rpc' = [rpc EXCEPT ![u] = "proceed"]
    /\ UNCHANGED <<reports, user_data, conv, forwarded, prompted, ranswer>>
    /\ UNCHANGED <<approvalVars, tallyVars, routerVars>>

\* lines 266-267: tell the reporter the post is already reported and
\* end the conversation
ReportAlready(u) ==
    /\ rpc[u] = "already"
    /\ ranswer' = [ranswer EXCEPT ![u] = "already"]
    /\ conv' = [conv EXCEPT ![u] = "end"]
    /\ rpc' = [rpc EXCEPT ![u] = "idle"]
    /\ UNCHANGED <<reports, user_data, forwarded, prompted>>
    /\ UNCHANGED <<approvalVars, tallyVars, routerVars>>

\* line 269: tell the reporter to go on in private
ReportAnswer(u) ==
    /\ rpc[u] = "proceed"
    /\ ranswer' = [ranswer EXCEPT ![u] = "private"]
    /\ rpc' = [rpc EXCEPT ![u] = "forward"]
    /\ UNCHANGED <<reports, user_data, conv, forwarded, prompted>>
    /\ UNCHANGED <<approvalVars, tallyVars, routerVars>>

\* line 271: forward the post to the reporter
ReportForward(u) ==
    /\ rpc[u] = "forward"
    /\ forwarded' = [forwarded EXCEPT ![u] = @ + 1]
    /\ rpc' = [rpc EXCEPT ![u] = "ask"]
    /\ UNCHANGED <<reports, user_data, conv, prompted, ranswer>>
    /\ UNCHANGED <<approvalVars, tallyVars, routerVars>>

\* line 273: ask the reporter for the reason
ReportAsk(u) ==
    /\ rpc[u] = "ask"
    /\ prompted' = [prompted EXCEPT ![u] = @ + 1]
    /\ rpc' = [rpc EXCEPT ![u] = "remember"]
    /\ UNCHANGED <<reports, user_data, conv, forwarded, ranswer>>
    /\ UNCHANGED <<approvalVars, tallyVars, routerVars>>

\* lines 276-278: remember the post in the session and return the
\* reporting state
ReportRemember(u) ==
    /\ rpc[u] = "remember"
    /\ user_data' = [user_data EXCEPT ![u] = PostId]
    /\ conv' = [conv EXCEPT ![u] = "reporting_spot"]
    /\ rpc' = [rpc EXCEPT ![u] = "idle"]
    /\ UNCHANGED <<reports, forwarded, prompted, ranswer>>
    /\ UNCHANGED <<approvalVars, tallyVars, routerVars>>

\* the follow-up step of the conversation: the reporter sends the reason
\* and the Report is filed
ReportSpotMsg(u) ==
    /\ conv[u] = "reporting_spot"
    /\ rpc[u] = "idle"
    /\ reports' = [reports EXCEPT ![u] = @ + 1]
    /\ conv' = [conv EXCEPT ![u] = "end"]
    /\ UNCHANGED <<rpc, user_data, forwarded, prompted, ranswer>>
    /\ UNCHANGED <<approvalVars, tallyVars, routerVars>>

\* the follow-up step of the conversation: the reporter types /cancel
ReportCancel(u) ==
    /\ conv[u] = "reporting_spot"
    /\ rpc[u] = "idle"
    /\ conv' = [conv EXCEPT ![u] = "end"]
    /\ UNCHANGED <<reports, rpc, user_data, forwarded, prompted, ranswer>>
    /\ UNCHANGED <<approvalVars, tallyVars, routerVars>>

NextReport ==
    \E u \in Voters :
        \/ ReportProbe(u)
        \/ ReportAlready(u)
        \/ ReportAnswer(u)
        \/ ReportForward(u)
        \/ ReportAsk(u)
        \/ ReportRemember(u)
        \/ ReportSpotMsg(u)
        \/ ReportCancel(u)

SpecReport == InitPublic /\ [][NextReport]_vars

\* ------------------------------------------------------- meme_callback
\* Callback data are strings; a string is the sequence of its characters.
Prefix == <<"m", "e", "m", "e", "_">>
W_vote == <<"v", "o", "t", "e">>
W_approve_yes == <<"a", "p", "p", "r", "o", "v", "e", "_", "y", "e", "s">>
W_approve_no == <<"a", "p", "p", "r", "o", "v", "e", "_", "n", "o">>
W_confirm == <<"c", "o", "n", "f", "i", "r", "m">>
W_settings == <<"s", "e", "t", "t", "i", "n", "g", "s">>
W_report_spot == <<"r", "e", "p", "o", "r", "t", "_", "s", "p", "o", "t">>
W_close == <<"c", "l", "o", "s", "e">>
W_avg == <<"a", "v", "g">>
W_max == <<"m", "a", "x">>
W_tot == <<"t", "o", "t">>
W_meme == <<"m", "e", "m", "e">>
W_stats == <<"s", "t", "a", "t", "s">>
W_bogus == <<"b", "o", "g", "u", "s">>
A_yes == <<"y", "e", "s">>
A_no == <<"n", "o">>
A_anonimo == <<"a", "n", "o", "n", "i", "m", "o">>
A_credit == <<"c", "r", "e", "d", "i", "t">>
A_stale == <<"x">>
Comma == <<",">>

Tok(command, arg) == Prefix \o command \o Comma \o arg
TokBare(command) == Prefix \o command
LegacyYes == <<"m", "e", "m", "e", "_", "v", "o", "t", "e", "_", "y", "e", "s">>
LegacyNo == <<"m", "e", "m", "e", "_", "v", "o", "t", "e", "_", "n", "o">>

\* the messages that carry buttons: the pending post in the admins'
\* group, the published post in the channel, its copy in the comments
\* with the report button, and the menus of the private chat
Chats == {"group", "channel", "comments", "private"}

\* the callback data explored on each message: the buttons the bot puts
\* there, the two old spellings, a button with no argument part, and in
\* the private chat stale data: commands that name no function, that
\* name a function of the statistics menu, or one of the two routers
ApproveTokens == {Tok(W_approve_yes, <<>>), Tok(W_approve_no, <<>>), TokBare(W_approve_yes)}
\* the reaction buttons explored: the two categories the old spellings
\* stand for and one stale value
VoteTokens ==
    {LegacyYes, LegacyNo, TokBare(W_vote)}
    \cup {Tok(W_vote, ReactionKeyOf(k)) : k \in ReactionArgs}
MenuTokens ==
    {Tok(W_confirm, A_yes), Tok(W_confirm, A_no), Tok(W_confirm, A_stale)}
    \cup {Tok(W_settings, A_anonimo), Tok(W_settings, A_credit), Tok(W_settings, A_stale)}
StaleTokens ==
    {Tok(W_bogus, <<"1">>), TokBare(W_bogus), Tok(W_close, <<>>)}
    \cup {Tok(W_stats, <<"1">>), TokBare(W_stats), Tok(W_meme, <<"1">>)}
Buttons(c) ==
    IF c = "group" THEN ApproveTokens
    ELSE IF c = "channel" THEN VoteTokens
    ELSE IF c = "comments" THEN {Tok(W_report_spot, <<>>)}
    ELSE MenuTokens \cup StaleTokens
Tokens == UNION {Buttons(c) : c \in Chats}
\* who presses them: the reactions come from the first and the last
\* user, every other button from any user
SendersOf(tok) == IF tok \in VoteTokens THEN Reactors ELSE Voters

\* lines 15-29
M_old_reactions(data) ==
    IF data = LegacyYes THEN Tok(W_vote, <<"0">>)
    ELSE IF data = LegacyNo THEN Tok(W_vote, <<"1">>)
    ELSE data
old_reactions(data) ==
    IF data = LegacyYes THEN Tok(W_vote, <<"1">>)
    ELSE IF data = LegacyNo THEN Tok(W_vote, <<"0">>)
    ELSE data

\* str.split(","), line 45
RECURSIVE split(_)
split(str) ==
    IF \A i \in 1..Len(str) : str[i] # ","
    THEN <<str>>
    ELSE LET i == CHOOSE j \in 1..Len(str) :
                      str[j] = "," /\ \A k \in 1..(j - 1) : str[k] # ","
         IN  <<SubSeq(str, 1, i - 1)>> \o split(SubSeq(str, i + 1, Len(str)))

\* data[0][5:], line 48
CommandName(field) == SubSeq(field, 6, Len(field))

\* the names X for which the module defines X_callback: the handlers
\* with the (info, arg) signature, the functions of the statistics menu
\* with one parameter, and the two routers (update, context)
Handlers == {W_confirm, W_settings, W_approve_yes, W_approve_no, W_vote, W_report_spot}
OneParameter == {W_avg, W_max, W_tot, W_close}
Routers == {W_meme, W_stats}
Globals == Handlers \cup OneParameter \cup Routers

\* line 48, evaluated left to right: the lookup in globals(), then the
\* argument data[1], then the call
DispatchError(data) ==
    IF CommandName(data[1]) \notin Globals THEN "KeyError"
    ELSE IF Len(data) < 2 THEN "IndexError"
    ELSE IF CommandName(data[1]) \in OneParameter THEN "TypeError"
    ELSE "none"

\* line 50: the only exception meme_callback catches
Caught(exc) == exc = "KeyError"

\* lines 54-62: the edits issued for the tuple the handler returned
M_Edits(text, markup) ==
    IF text # "none"
    THEN <<[call |-> "edit_message_text", text |-> text, markup |-> markup]>>
    ELSE <<>>
Edits(text, markup) ==
    IF text # "none"
    THEN <<[call |-> "edit_message_text", text |-> text, markup |-> markup]>>
    ELSE IF markup.kind # "none"
    THEN <<[call |-> "edit_message_reply_markup", text |-> "none", markup |-> markup]>>
    ELSE <<>>

approvalStore == <<pending, admin_votes, nPublished, bot_data, delivered, warnings, shown>>
tallyStore == <<user_votes, answer>>
reportStore == <<reports, user_data, conv, forwarded, prompted, ranswer>>
handlerVars == <<quorum, comments, posted, pc, ret, hist, prev, vpc, vwho, varg, vadded, vret, rpc>>

Raise(exc) == [HandlerNone EXCEPT !.exc = exc]
Keyboard(kind, n) == [HandlerNone EXCEPT !.markup = [NoKeyboard EXCEPT !.kind = kind, !.n = n]]
Notified(ok, kind) ==
    IF ok THEN [delivered EXCEPT ![kind] = @ + 1] ELSE delivered

\* the vote a vote token carries, as the store's category
CategoryOf(arg) == CHOOSE k \in VoteArgs : arg = ReactionKeyOf(k)

\* lines 151 and 195: this pending post is not present in the database
M_NotPresent(post) == FALSE
NotPresent(post) == ~post

\* this step dispatches no update / ends no callback
Quiet == token' = <<>>
Running == hret' = HandlerNone /\ edits' = <<>> /\ mret' = NoReturn
\* a running callback moves on to its next call
Goto(u, position) == run' = [run EXCEPT ![u].pc = position] /\ Running

\* lines 50-63: meme_callback ends for the tuple h its handler gave, or
\* for the exception it raised
Finish(u, h) ==
    /\ hret' = h
    /\ IF h.exc = "none"
       THEN /\ edits' = Edits(h.text, h.markup)
            /\ mret' = [by |-> u, raised |-> "none", output |-> h.output, log |-> h.log]
       ELSE IF Caught(h.exc)
       THEN /\ edits' = Edits("none", NoKeyboard)
            /\ mret' = [by |-> u, raised |-> "none", output |-> "none",
                        log |-> "meme_callback"]
       ELSE /\ edits' = <<>>
            /\ mret' = [by |-> u, raised |-> h.exc, output |-> "none", log |-> "none"]
    /\ run' = [run EXCEPT ![u] = IdleRun]

\* the handler returns h: when lines 54-62 have an edit to send, that
\* call is the next step; otherwise meme_callback ends here
Return(u, h) ==
    IF h.exc = "none" /\ Edits(h.text, h.markup) # <<>>
    THEN /\ run' = [run EXCEPT ![u] = [IdleRun EXCEPT !.pc = "edit", !.hret = h]]
         /\ Running
    ELSE Finish(u, h)

\* lines 54-63: the edit call, then the return
EditMessage(u) ==
    /\ run[u].pc = "edit"
    /\ Finish(u, run[u].hret)
    /\ Quiet
    /\ UNCHANGED <<approvalStore, tallyStore, reportStore, credited>>
    /\ UNCHANGED <<handlerVars, chat>>

\* line 48 raises, or calls a router with a handler's arguments, which
\* raises AttributeError on its first line: no handler runs
EnterNothing(u, exc) ==
    /\ Finish(u, Raise(exc))
    /\ UNCHANGED <<approvalStore, tallyStore, reportStore, credited>>

\* lines 150-153 and 194-197: load the pending post
EnterApprove(u, data, position) ==
    /\ IF NotPresent(from_group(pending))
       THEN Return(u, HandlerNone)
       ELSE /\ run' = [run EXCEPT ![u] = [IdleRun EXCEPT !.pc = position, !.data = data]]
            /\ Running
    /\ UNCHANGED <<approvalStore, tallyStore, reportStore, credited>>

\* lines 154-157, 177-181
RunYesVote(u) ==
    /\ run[u].pc = "yes_vote"
    /\ LET r == YesVoteCall(admin_votes, u)
       IN  /\ admin_votes' = r.rows
           /\ IF QuorumReached(r.n, quorum)
              THEN Goto(u, "yes_publish")
              ELSE Return(u, IF VoteChanged(r.n) THEN Keyboard("approve", r.n)
                             ELSE HandlerNone)
    /\ Quiet
    /\ UNCHANGED <<pending, nPublished, bot_data, delivered, warnings, shown>>
    /\ UNCHANGED <<tallyStore, reportStore, credited, handlerVars, chat>>

\* lines 158-163
RunYesPublish(u) ==
    /\ run[u].pc = "yes_publish"
    /\ nPublished' = nPublished + 1
    /\ IF comments
       THEN /\ run' = [run EXCEPT ![u].pc = "yes_credit", ![u].post = nPublished + 1]
            /\ Running
       ELSE Goto(u, "yes_notify")
    /\ Quiet
    /\ UNCHANGED <<pending, admin_votes, bot_data, delivered, warnings, shown>>
    /\ UNCHANGED <<tallyStore, reportStore, credited, handlerVars, chat>>

\* line 164
RunYesCredit(u) ==
    /\ run[u].pc = "yes_credit"
    /\ bot_data' = bot_data \cup {run[u].post}
    /\ run' = [run EXCEPT ![u].pc = "yes_notify", ![u].post = 0]
    /\ Running
    /\ Quiet
    /\ UNCHANGED <<pending, admin_votes, nPublished, delivered, warnings, shown>>
    /\ UNCHANGED <<tallyStore, reportStore, credited, handlerVars, chat>>

\* lines 166-170
RunYesNotify(u) ==
    /\ run[u].pc = "yes_notify"
    /\ \E ok \in BOOLEAN :
         /\ delivered' = Notified(ok, "pub")
         /\ warnings' = IF ok THEN warnings ELSE warnings + 1
         /\ Goto(u, AfterNotify(ok, "yes_show"))
    /\ Quiet
    /\ UNCHANGED <<pending, admin_votes, nPublished, bot_data, shown>>
    /\ UNCHANGED <<tallyStore, reportStore, credited, handlerVars, chat>>

\* line 173
RunYesShow(u) ==
    /\ run[u].pc = "yes_show"
    /\ shown' = [shown EXCEPT !.yes = @ + 1]
    /\ Goto(u, "yes_delete")
    /\ Quiet
    /\ UNCHANGED <<pending, admin_votes, nPublished, bot_data, delivered, warnings>>
    /\ UNCHANGED <<tallyStore, reportStore, credited, handlerVars, chat>>

\* lines 174-175, then 54-63 with nothing to edit
RunYesDelete(u) ==
    /\ run[u].pc = "yes_delete"
    /\ pending' = FALSE
    /\ admin_votes' = delete_post_rows(admin_votes)
    /\ Return(u, HandlerNone)
    /\ Quiet
    /\ UNCHANGED <<nPublished, bot_data, delivered, warnings, shown>>
    /\ UNCHANGED <<tallyStore, reportStore, credited, handlerVars, chat>>

\* lines 198-201, 216-220
RunNoVote(u) ==
    /\ run[u].pc = "no_vote"
    /\ LET r == NoVoteCall(admin_votes, u)
       IN  /\ admin_votes' = r.rows
           /\ IF QuorumReached(r.n, quorum)
              THEN Goto(u, "no_notify")
              ELSE Return(u, IF VoteChanged(r.n) THEN Keyboard("reject", r.n)
                             ELSE HandlerNone)
    /\ Quiet
    /\ UNCHANGED <<pending, nPublished, bot_data, delivered, warnings, shown>>
    /\ UNCHANGED <<tallyStore, reportStore, credited, handlerVars, chat>>

\* lines 204-209
RunNoNotify(u) ==
    /\ run[u].pc = "no_notify"
    /\ \E ok \in BOOLEAN :
         /\ delivered' = Notified(ok, "rej")
         /\ warnings' = IF ok THEN warnings ELSE warnings + 1
         /\ Goto(u, AfterNotify(ok, "no_show"))
    /\ Quiet
    /\ UNCHANGED <<pending, admin_votes, nPublished, bot_data, shown>>
    /\ UNCHANGED <<tallyStore, reportStore, credited, handlerVars, chat>>

\* line 212
RunNoShow(u) ==
    /\ run[u].pc = "no_show"
    /\ shown' = [shown EXCEPT !.no = @ + 1]
    /\ Goto(u, "no_delete")
    /\ Quiet
    /\ UNCHANGED <<pending, admin_votes, nPublished, bot_data, delivered, warnings>>
    /\ UNCHANGED <<tallyStore, reportStore, credited, handlerVars, chat>>

\* lines 213-214, then 54-63 with nothing to edit
RunNoDelete(u) ==
    /\ run[u].pc = "no_delete"
    /\ pending' = FALSE
    /\ admin_votes' = delete_post_rows(admin_votes)
    /\ Return(u, HandlerNone)
    /\ Quiet
    /\ UNCHANGED <<nPublished, bot_data, delivered, warnings, shown>>
    /\ UNCHANGED <<tallyStore, reportStore, credited, handlerVars, chat>>

\* line 234; on None line 235 raises AttributeError
EnterVote(u, data) ==
    /\ IF from_channel(nPublished)
       THEN /\ run' = [run EXCEPT ![u] = [IdleRun EXCEPT !.pc = "vote_set", !.data = data]]
            /\ Running
       ELSE Finish(u, Raise("AttributeError"))
    /\ UNCHANGED <<approvalStore, tallyStore, reportStore, credited>>

\* line 235
RunVoteSet(u) ==
    /\ run[u].pc = "vote_set"
    /\ LET r == UserVoteCall(user_votes, u, CategoryOf(run[u].data[2]))
       IN  /\ user_votes' = r.rows
           /\ run' = [run EXCEPT ![u].pc = "vote_answer", ![u].added = r.was_added]
    /\ Running
    /\ Quiet
    /\ UNCHANGED <<answer, approvalStore, reportStore, credited, handlerVars, chat>>

\* lines 237-240; the KeyError of REACTION[arg] is caught at line 50
RunVoteAnswer(u) ==
    /\ run[u].pc = "vote_answer"
    /\ IF ReactionKey(run[u].data[2])
       THEN /\ answer' = [answer EXCEPT ![u] = AnswerText(run[u].added)]
            /\ Goto(u, "vote_render")
       ELSE /\ answer' = answer
            /\ Finish(u, Raise("KeyError"))
    /\ Quiet
    /\ UNCHANGED <<user_votes, approvalStore, reportStore, credited, handlerVars, chat>>

\* lines 242-243
RunVoteRender(u) ==
    /\ run[u].pc = "vote_render"
    /\ Return(u, [HandlerNone EXCEPT !.markup =
                    [NoKeyboard EXCEPT !.kind = "vote",
                                       !.tally = update_vote_kb(user_votes)]])
    /\ Quiet
    /\ UNCHANGED <<tallyStore, approvalStore, reportStore, credited, handlerVars, chat>>

\* lines 260-265
EnterReportSpot(u, data) ==
    /\ IF AlreadyReported(get_post_report(reports, u))
       THEN run' = [run EXCEPT ![u] = [IdleRun EXCEPT !.pc = "report_already",
                                                      !.data = data]]
       ELSE /\ forwarded[u] < MaxForwards
            /\ run' = [run EXCEPT ![u] = [IdleRun EXCEPT !.pc = "report_answer",
                                                           !.data = data]]
    /\ Running
    /\ UNCHANGED <<approvalStore, tallyStore, reportStore, credited>>

\* lines 266-267, then 54-63 with nothing to edit
RunReportAlready(u) ==
    /\ run[u].pc = "report_already"
    /\ ranswer' = [ranswer EXCEPT ![u] = "already"]
    /\ conv' = [conv EXCEPT ![u] = "end"]
    /\ Return(u, [HandlerNone EXCEPT !.output = "end"])
    /\ Quiet
    /\ UNCHANGED <<reports, user_data, forwarded, prompted>>
    /\ UNCHANGED <<approvalStore, tallyStore, credited, handlerVars, chat>>

\* line 269
RunReportAnswer(u) ==
    /\ run[u].pc = "report_answer"
    /\ ranswer' = [ranswer EXCEPT ![u] = "private"]
    /\ Goto(u, "report_forward")
    /\ Quiet
    /\ UNCHANGED <<reports, user_data, conv, forwarded, prompted>>
    /\ UNCHANGED <<approvalStore, tallyStore, credited, handlerVars, chat>>

\* line 271
RunReportForward(u) ==
    /\ run[u].pc = "report_forward"
    /\ forwarded' = [forwarded EXCEPT ![u] = @ + 1]
    /\ Goto(u, "report_ask")
    /\ Quiet
    /\ UNCHANGED <<reports, user_data, conv, prompted, ranswer>>
    /\ UNCHANGED <<approvalStore, tallyStore, credited, handlerVars, chat>>

\* line 273
RunReportAsk(u) ==
    /\ run[u].pc = "report_ask"
    /\ prompted' = [prompted EXCEPT ![u] = @ + 1]
    /\ Goto(u, "report_remember")
    /\ Quiet
    /\ UNCHANGED <<reports, user_data, conv, forwarded, ranswer>>
    /\ UNCHANGED <<approvalStore, tallyStore, credited, handlerVars, chat>>

\* lines 276-278, then 54-63 with nothing to edit
RunReportRemember(u) ==
    /\ run[u].pc = "report_remember"
    /\ user_data' = [user_data EXCEPT ![u] = PostId]
    /\ conv' = [conv EXCEPT ![u] = "reporting_spot"]
    /\ Return(u, [HandlerNone EXCEPT !.output = "reporting_spot"])
    /\ Quiet
    /\ UNCHANGED <<reports, forwarded, prompted, ranswer>>
    /\ UNCHANGED <<approvalStore, tallyStore, credited, handlerVars, chat>>

\* confirm_callback, lines 80-96; the post that send_post_to hands to
\* the admins is another post than the one followed here
EnterConfirm(u, arg, sent) ==
    /\ Return(u, IF arg = A_yes
                 THEN [HandlerNone EXCEPT !.text = IF sent THEN "in_review" ELSE "problem",
                                          !.output = "end"]
                 ELSE IF arg = A_no
                 THEN [HandlerNone EXCEPT !.text = "next_time", !.output = "end"]
                 ELSE [HandlerNone EXCEPT !.output = "end", !.log = "confirm_callback"])
    /\ UNCHANGED <<approvalStore, tallyStore, reportStore, credited>>

\* settings_callback, lines 112-136
EnterSettings(u, arg, has_username) ==
    /\ IF arg = A_anonimo
       THEN /\ credited' = credited \ {u}
            /\ Return(u, [HandlerNone EXCEPT !.text =
                            IF u \notin credited THEN "already_anonym" ELSE "now_anonym"])
       ELSE IF arg = A_credit
       THEN /\ credited' = credited \cup {u}
            /\ Return(u, [HandlerNone EXCEPT !.text =
                            IF u \in credited
                            THEN (IF has_username THEN "already_credited_as"
                                  ELSE "already_credited_warn")
                            ELSE (IF has_username THEN "now_credited_as"
                                  ELSE "now_credited_warn")])
       ELSE /\ credited' = credited
            /\ Return(u, [HandlerNone EXCEPT !.log = "settings_callback"])
    /\ UNCHANGED <<approvalStore, tallyStore, reportStore>>

\* meme_callback, lines 42-48, up to the first call the handler makes;
\* env is what that call meets outside: the post reached the admins,
\* the sender has a username (TRUE for the handlers that ask nothing)
MemeCallback(u, tok, env) ==
    LET data == split(old_reactions(tok))
        name == CommandName(data[1])
        err == DispatchError(data)
    IN  /\ run[u].pc = "idle"
        /\ tok \in Buttons(chat)
        /\ u \in SendersOf(tok)
        /\ env \/ name \in {W_confirm, W_settings}
        /\ token' = tok
        /\ IF err # "none" THEN EnterNothing(u, err)
           ELSE IF name \in Routers THEN EnterNothing(u, "AttributeError")
           ELSE IF name = W_approve_yes THEN EnterApprove(u, data, "yes_vote")
           ELSE IF name = W_approve_no THEN EnterApprove(u, data, "no_vote")
           ELSE IF name = W_vote THEN EnterVote(u, data)
           ELSE IF name = W_report_spot THEN EnterReportSpot(u, data)
           ELSE IF name = W_confirm THEN EnterConfirm(u, data[2], env)
           ELSE EnterSettings(u, data[2], env)
        /\ UNCHANGED <<handlerVars, chat>>

\* the message the buttons are on: the pending post before any vote,
\* the published post (or a channel message without a PublishedPost),
\* the comment under the published post, with or without a Report of
\* user 1, or a menu of the private chat
InitDispatch ==
    /\ chat \in Chats
    /\ quorum \in (IF chat = "group" THEN 1..MaxQuorum ELSE {1})
    /\ comments = Comments(quorum)
    /\ posted = [a \in Admins |-> 0]
    /\ pending = (chat = "group")
    /\ admin_votes = {}
    /\ pc = [a \in Admins |-> "idle"]
    /\ nPublished \in (IF chat = "channel" THEN 0..1
                       ELSE IF chat = "comments" THEN {1} ELSE {0})
    /\ bot_data = IF comments THEN 1..nPublished ELSE {}
    /\ delivered = [pub |-> nPublished, rej |-> 0]
    /\ warnings = 0
    /\ shown = [yes |-> nPublished, no |-> 0]
    /\ ret = ReturnNone
    /\ hist = NoClicks
    /\ prev = "none"
    /\ InitTally
    /\ \E n \in (IF chat = "comments" THEN 0..1 ELSE {0}) :
           reports = [u \in Voters |-> IF u = 1 THEN n ELSE 0]
    /\ rpc = [u \in Voters |-> "idle"]
    /\ user_data = [u \in Voters |-> IF reports[u] = 1 THEN PostId ELSE 0]
    /\ conv = [u \in Voters |-> IF reports[u] = 1 THEN "end" ELSE "none"]
    /\ forwarded = [u \in Voters |-> reports[u]]
    /\ prompted = [u \in Voters |-> reports[u]]
    /\ ranswer = [u \in Voters |-> IF reports[u] = 1 THEN "private" ELSE "none"]
    /\ InitRouter

\* the senders are users 1..NumVoters; in the admins' group they are
\* admins
NextRouter ==
    \E u \in Voters :
        \/ \E tok \in Tokens : \E env \in BOOLEAN : MemeCallback(u, tok, env)
        \/ RunYesVote(u)
        \/ RunYesPublish(u)
        \/ RunYesCredit(u)
        \/ RunYesNotify(u)
        \/ RunYesShow(u)
        \/ RunYesDelete(u)
        \/ RunNoVote(u)
        \/ RunNoNotify(u)
        \/ RunNoShow(u)
        \/ RunNoDelete(u)
        \/ RunVoteSet(u)
        \/ RunVoteAnswer(u)
        \/ RunVoteRender(u)
        \/ RunReportAlready(u)
        \/ RunReportAnswer(u)
        \/ RunReportForward(u)
        \/ RunReportAsk(u)
        \/ RunReportRemember(u)
        \/ EditMessage(u)

SpecRouter == InitDispatch /\ [][NextRouter]_vars

\* ===================================================================
\* Properties
\* ===================================================================
AllIdle == \A a \in Admins : pc[a] = "idle"
InTerminal(a) == pc[a] \in Terminal
RowsOf(rows, who) == {r \in rows : r[1] = who}
\* the step is taken by the handler that admin a is running
StepOf(a) == pc'[a] # pc[a]

\* C1: whatever the quorum and the interleaving of approve_yes/approve_no
\* callbacks, the terminal transition fires at most once: the post is
\* published at most once, the submitter gets at most one outcome
\* notification, and the post is never both published and rejected.
C1_AtMostOnce ==
    /\ nPublished <= 1
    /\ delivered.pub + delivered.rej <= 1
    /\ ~(nPublished >= 1 /\ shown.no >= 1)

\* C2: with quorum 2, when two distinct admins have each clicked approve
\* once (concurrently or not) and both callbacks are over, the post was
\* published exactly once and its PendingPost deleted once; any callback
\* that starts afterwards finds no PendingPost and changes nothing.
C2_Pre ==
    /\ quorum = 2
    /\ AllIdle
    /\ hist.k = "two"
C2_TwoApprovals ==
    [][C2_Pre =>
         /\ ~pending
         /\ nPublished = 1
         /\ shown = [yes |-> 1, no |-> 0]
         /\ delivered.pub + warnings = 1
         /\ UNCHANGED <<pending, admin_votes, pc, nPublished, bot_data,
                        delivered, warnings, shown>>
         /\ ret'.markup = NoMarkup]_vars
C2_Witness ==
    /\ quorum = 2
    /\ AllIdle
    /\ ~pending
    /\ nPublished = 1
    /\ hist.k = "third"
    /\ ret = ReturnNone

\* C3: promotion is atomic: in every state a post is in exactly one of
\* the states pending, published, rejected; the PublishedPost never
\* exists while the PendingPost still exists and accepts votes.
C3_AtomicPromotion ==
    /\ ~(pending /\ nPublished >= 1)
    /\ ~(pending /\ shown.no >= 1)
    /\ ~(nPublished >= 1 /\ shown.no >= 1)
    /\ (pending \/ nPublished >= 1 \/ shown.no >= 1)

\* C4: when an admin who already holds an approve vote clicks approve
\* again (or reject after reject), the vote rows and the counts stay as
\* they are, the sentinel is returned, no transition fires and the
\* handler returns no keyboard.
C4_Dup(a, position, approval) ==
    (pc[a] = position /\ <<a, approval>> \in admin_votes /\ StepOf(a)) =>
        /\ admin_votes' = admin_votes
        /\ set_admin_vote(admin_votes, a, approval).n = NoChange
        /\ pc'[a] = "idle"
        /\ ret' = ReturnNone
        /\ UNCHANGED <<pending, nPublished, delivered, warnings, shown>>
C4_IdempotentVote ==
    [][\A a \in Admins : C4_Dup(a, "yes_vote", TRUE) /\ C4_Dup(a, "no_vote", FALSE)]_vars
C4_Witness ==
    /\ pending
    /\ AllIdle
    /\ prev = "yes"
    /\ ret = ReturnNone
    /\ get_votes(admin_votes, TRUE) >= 1

\* C5: an admin who holds a reject vote and clicks approve is afterwards
\* counted only as approving: the approve count grows by one, the reject
\* count shrinks by one and the admin has exactly one row; and in every
\* state every admin has at most one row.
C5_Flip(a) ==
    (pc[a] = "yes_vote" /\ <<a, FALSE>> \in admin_votes /\ StepOf(a)) =>
        /\ get_votes(admin_votes', TRUE) = get_votes(admin_votes, TRUE) + 1
        /\ get_votes(admin_votes', FALSE) = get_votes(admin_votes, FALSE) - 1
        /\ RowsOf(admin_votes', a) = {<<a, TRUE>>}
C5_OneRow == \A a \in Admins : Cardinality(RowsOf(admin_votes, a)) <= 1
C5_VoteFlip ==
    C5_OneRow /\ [][C5_OneRow' /\ \A a \in Admins : C5_Flip(a)]_vars
C5_Witness ==
    /\ pending
    /\ AllIdle
    /\ prev = "no"
    /\ ret.markup.kind = "approve"
    /\ ret.markup.n = get_votes(admin_votes, TRUE)

\* C6: a voter never holds more than one reaction category; choosing a
\* category the voter does not hold replaces whatever was held and is
\* answered as added; choosing the held category again retracts it: the
\* call is answered as removed and the voter has no row left.
C6_OneCategory == \A v \in Voters : Cardinality(RowsOf(user_votes, v)) <= 1
C6_Toggle(s) ==
    /\ (vpc[s] = "set" /\ vpc'[s] = "answer" /\ varg[s] \in Categories) =>
           IF <<vwho[s], varg[s]>> \in user_votes
           THEN /\ ~vadded'[s]
                /\ RowsOf(user_votes', vwho[s]) = {}
           ELSE /\ vadded'[s]
                /\ RowsOf(user_votes', vwho[s]) = {<<vwho[s], varg[s]>>}
    /\ (vpc[s] = "answer" /\ vpc'[s] = "render") =>
           answer'[vwho[s]] = IF vadded[s] THEN "added" ELSE "removed"
C6_ExclusiveReaction ==
    [][C6_OneCategory /\ C6_OneCategory' /\ \A s \in Slots : C6_Toggle(s)]_vars
C6_Witness ==
    \E v \in Voters :
        /\ \A s \in Slots : vpc[s] = "idle"
        /\ answer[v] = "removed"
        /\ RowsOf(user_votes, v) = {}
        /\ vret = VoteReturn("kb", user_votes)

\* C7: the first report attempt of a reporter on a post creates the
\* Report, every later attempt of the same reporter on the same post is
\* answered as already reported, and there is never more than one Report
\* for the pair.
C7_Attempted(u) == user_data[u] = PostId /\ rpc[u] = "idle"
C7_ReportDedup ==
    [][\A u \in Voters :
          /\ reports[u] <= 1
          /\ C7_Attempted(u) => reports[u] = 1
          /\ C7_Attempted(u) => rpc'[u] # "proceed"]_vars

\* C8: a failed notification to the submitter rolls nothing back: the
\* handler goes on to show the votes and to delete the PendingPost, the
\* post stays published, and once every handler is over each transition
\* that fired is accounted for by one delivered or one failed notice.
C8_FailedStep(a, position, next) ==
    (pc[a] = position /\ StepOf(a) /\ warnings' = warnings + 1) =>
        /\ pc'[a] = next
        /\ UNCHANGED <<pending, admin_votes, nPublished, bot_data, delivered, shown>>
C8_Completes(a, position) ==
    (pc[a] = position /\ StepOf(a)) =>
        /\ ~pending'
        /\ pc'[a] = "idle"
        /\ ret' = ReturnNone
        /\ UNCHANGED <<nPublished, bot_data, delivered, warnings, shown>>
C8_Settled ==
    (AllIdle /\ warnings >= 1) =>
        /\ ~pending
        /\ nPublished = shown.yes
        /\ shown.yes + shown.no = delivered.pub + delivered.rej + warnings
C8_NotifyFailure ==
    [][/\ C8_Settled
       /\ nPublished' >= nPublished
       /\ \A a \in Admins :
            /\ C8_FailedStep(a, "yes_notify", "yes_show")
            /\ C8_FailedStep(a, "no_notify", "no_show")
            /\ C8_Completes(a, "yes_delete")
            /\ C8_Completes(a, "no_delete")]_vars
C8_Witness ==
    /\ AllIdle
    /\ ~pending
    /\ warnings = 1
    /\ delivered = [pub |-> 0, rej |-> 0]
    /\ nPublished = 1
    /\ shown.yes = 1

\* C9: the PendingPost leaves the store only through a handler whose
\* vote brought the count of its direction to the quorum; while no count
\* has reached the quorum the post persists through votes, flips and
\* duplicate clicks; and a PendingPost whose approve or reject count is
\* at the quorum always has its triggering handler still running.
C9_BelowQuorum ==
    /\ get_votes(admin_votes, TRUE) < quorum
    /\ get_votes(admin_votes, FALSE) < quorum
C9_Triggered == \E a \in Admins : InTerminal(a)
C9_Enter(a) ==
    /\ (pc[a] \notin TerminalYes /\ pc'[a] \in TerminalYes) =>
           (pc[a] = "yes_vote" /\ get_votes(admin_votes', TRUE) >= quorum)
    /\ (pc[a] \notin TerminalNo /\ pc'[a] \in TerminalNo) =>
           (pc[a] = "no_vote" /\ get_votes(admin_votes', FALSE) >= quorum)
C9_Lifecycle ==
    [][/\ (pending /\ ~C9_Triggered) => (C9_BelowQuorum /\ pending')
       /\ (pending /\ ~pending') =>
              \E a \in Admins : pc[a] \in {"yes_delete", "no_delete"} /\ pc'[a] = "idle"
       /\ (~pending) => ~pending'
       /\ \A a \in Admins : C9_Enter(a)]_vars
C9_Witness ==
    /\ quorum = 2
    /\ AllIdle
    /\ ~pending
    /\ shown.yes + shown.no = 1
    /\ hist.k = "other"

\* C10: once the quorum has been reached by another admin's vote, a
\* vote that is processed later is a no-op: it is not recorded, it fires
\* no transition and its handler returns no keyboard.
C10_Resolved(a) == ~pending \/ \E b \in Admins \ {a} : InTerminal(b)
C10_LateVote ==
    [][\A a \in Admins :
          (C10_Resolved(a) /\ pc[a] \in {"yes_vote", "no_vote"} /\ StepOf(a)) =>
              /\ admin_votes' = admin_votes
              /\ pc'[a] = "idle"
              /\ ret' = ReturnNone]_vars

\* C16: concurrent vote_callback requests on one published post, of
\* one voter or of several, lose no update: the stored rows are always
\* those of the committed requests applied one after another in the
\* order they committed, whatever else is in flight; no other call of
\* a handler writes the rows; every voter holds at most one category
\* and a commit leaves the rows of the other voters alone.
C16_Held(rows, who) == {r[2] : r \in RowsOf(rows, who)}
\* the request (who, arg) applied alone to what voter w holds
C16_Serial(held, w, who, arg) ==
    IF w # who \/ arg \notin Categories THEN held
    ELSE IF held = {arg} THEN {} ELSE {arg}
C16_Commit(s) ==
    (vpc[s] = "set" /\ vpc'[s] = "answer") =>
        \A w \in Voters :
            C16_Held(user_votes', w) =
                C16_Serial(C16_Held(user_votes, w), w, vwho[s], varg[s])
C16_Frame ==
    (\A s \in Slots : ~(vpc[s] = "set" /\ vpc'[s] = "answer")) => user_votes' = user_votes
C16_OneCategory == \A v \in Voters : Cardinality(C16_Held(user_votes, v)) <= 1
C16_NoLostUpdate ==
    [][C16_Frame /\ C16_OneCategory' /\ \A s \in Slots : C16_Commit(s)]_vars
\* two requests of one voter for two categories have both committed and
\* neither is over, while another voter's reaction stays stored
C16_Witness ==
    \E s, t \in Slots : \E w \in Voters :
        /\ s # t
        /\ vpc[s] = "answer" /\ vpc[t] = "answer"
        /\ vwho[s] = vwho[t]
        /\ varg[s] # varg[t]
        /\ varg[s] \in Categories /\ varg[t] \in Categories
        /\ vadded[s] /\ vadded[t]
        /\ Cardinality(RowsOf(user_votes, vwho[s])) = 1
        /\ w # vwho[s]
        /\ RowsOf(user_votes, w) # {}

\* C18: on the approve path the handler publishes, then notifies, then
\* shows the votes, then deletes the PendingPost; so from the moment a
\* handler has seen the approval quorum until it returns, the post is in
\* the store as a PendingPost or is published.
C18_Order(a) ==
    /\ pc[a] = "yes_publish" /\ StepOf(a) =>
           pc'[a] \in {"yes_credit", "yes_notify"} /\ nPublished' = nPublished + 1
    /\ pc[a] = "yes_credit" /\ StepOf(a) => pc'[a] = "yes_notify"
    /\ pc[a] = "yes_notify" /\ StepOf(a) => pc'[a] = "yes_show"
    /\ pc[a] = "yes_show" /\ StepOf(a) => pc'[a] = "yes_delete" /\ shown'.yes = shown.yes + 1
    /\ pc[a] = "yes_delete" /\ StepOf(a) => pc'[a] = "idle" /\ ~pending'
C18_NeverLost ==
    \A a \in Admins : pc[a] \in TerminalYes => (pending \/ nPublished >= 1)
C18_PublishBeforeDelete ==
    [][C18_NeverLost /\ \A a \in Admins : C18_Order(a)]_vars

\* C19: report_spot_callback moves the conversation to reporting_spot,
\* stores the reported message id in the session and forwards the post
\* to the reporter only when the reporter has no Report on the post;
\* when a Report exists the conversation ends and the session, the
\* Report store and the private chat stay as they are.
C19_Fresh(u) ==
    /\ (rpc[u] = "forward" /\ rpc'[u] = "ask") =>
           /\ reports[u] = 0
           /\ forwarded'[u] = forwarded[u] + 1
    /\ (rpc[u] = "remember" /\ rpc'[u] = "idle") =>
           /\ reports[u] = 0
           /\ conv'[u] = "reporting_spot"
           /\ user_data'[u] = PostId
           /\ forwarded[u] = prompted[u]
           /\ reports' = reports
C19_Known(u) ==
    /\ (rpc[u] = "idle" /\ reports[u] >= 1 /\ rpc'[u] # rpc[u]) =>
           /\ rpc'[u] = "already"
           /\ UNCHANGED <<user_data, reports, conv, forwarded, prompted, ranswer>>
    /\ (rpc[u] = "already" /\ rpc'[u] # rpc[u]) =>
           /\ rpc'[u] = "idle"
           /\ conv'[u] = "end"
           /\ ranswer'[u] = "already"
           /\ UNCHANGED <<user_data, reports, forwarded, prompted>>
C19_Guard(u) ==
    /\ (rpc[u] = "idle" /\ rpc'[u] = "proceed") => reports[u] = 0
    /\ (user_data'[u] # user_data[u] \/ forwarded'[u] # forwarded[u]
          \/ prompted'[u] # prompted[u]) =>
           (rpc[u] \in {"forward", "ask", "remember"} /\ reports[u] = 0)
C19_ReportFrame ==
    [][\A u \in Voters : C19_Fresh(u) /\ C19_Known(u) /\ C19_Guard(u)]_vars
C19_Witness ==
    \E u \in Voters :
        /\ reports[u] = 1
        /\ ranswer[u] = "already"
        /\ conv[u] = "end"
        /\ user_data[u] = PostId
        /\ forwarded[u] = 1
        /\ prompted[u] = 1

\* -------------------------------------------------- claims on the router
StoresUnchanged == UNCHANGED <<approvalStore, tallyStore, reportStore, credited>>
DataOf(tok) == split(old_reactions(tok))
NameOf(tok) == CommandName(DataOf(tok)[1])
\* an update is dispatched in this step / a callback has just ended
Dispatched == token' # <<>>
Ended == mret.by # 0

\* C11: no failure path of meme_callback crashes the dispatch: whatever
\* the token, the callback returns; and for a token without an argument
\* part, an unknown command, a reaction on a post without a
\* PublishedPost and a reaction outside the enumeration, the stored
\* votes stay as they are and no edit is issued.
C11_Failure(tok) ==
    \/ Len(DataOf(tok)) < 2
    \/ NameOf(tok) \notin Globals
    \/ NameOf(tok) = W_vote /\ ~from_channel(nPublished)
    \/ NameOf(tok) = W_vote /\ Len(DataOf(tok)) >= 2 /\ ~ReactionKey(DataOf(tok)[2])
C11_NoCrash ==
    [][/\ mret'.raised = "none"
       /\ (Dispatched /\ C11_Failure(token')) =>
              /\ admin_votes' = admin_votes
              /\ user_votes' = user_votes
              /\ edits' = <<>>]_vars

\* C12: an approve or reject callback on a post that has no PendingPost
\* is a silent no-op: no vote is recorded, nothing is created, deleted
\* or notified, no edit is issued and nothing is logged or returned; the
\* callback is over with its first call.
C12_SilentNoOp ==
    [][(token' \in {Tok(W_approve_yes, <<>>), Tok(W_approve_no, <<>>)} /\ ~pending) =>
          /\ StoresUnchanged
          /\ run' = run
          /\ hret' = HandlerNone
          /\ edits' = <<>>
          /\ mret'.by # 0
          /\ mret'.raised = "none"
          /\ mret'.output = "none"
          /\ mret'.log = "none"]_vars
C12_Witness ==
    /\ token = Tok(W_approve_no, <<>>)
    /\ Ended
    /\ ~pending
    /\ nPublished = 1
    /\ shown.no = 0
    /\ admin_votes = {}
    /\ edits = <<>>

\* C13: a token whose command matches no handler is an unknown
\* command: it is logged by meme_callback, no handler runs, no vote or
\* report changes, no edit is issued and None is returned.  The
\* handlers are the functions meme_callback can call with (info, arg).
C13_UnknownCommand ==
    [][(Dispatched /\ NameOf(token') \notin Handlers) =>
          /\ StoresUnchanged
          /\ run' = run
          /\ edits' = <<>>
          /\ mret'.by # 0
          /\ mret'.raised = "none"
          /\ mret'.output = "none"
          /\ mret'.log = "meme_callback"]_vars

\* C14: for every callback the router issues at most one edit, and only
\* when the callback ends: the text replacement when the handler
\* returned a text, otherwise the keyboard replacement when it returned a
\* keyboard, otherwise none; and it returns the handler's output as it
\* is.
C14_Returned == IF hret.exc = "none" THEN hret ELSE HandlerNone
C14_OneEdit ==
    /\ Len(edits) <= 1
    /\ edits # <<>> => Ended
    /\ (Ended /\ mret.raised = "none") =>
        /\ C14_Returned.text # "none" =>
               /\ Len(edits) = 1
               /\ edits[1].call = "edit_message_text"
               /\ edits[1].text = C14_Returned.text
        /\ (C14_Returned.text = "none" /\ C14_Returned.markup.kind # "none") =>
               /\ Len(edits) = 1
               /\ edits[1].call = "edit_message_reply_markup"
               /\ edits[1].markup = C14_Returned.markup
        /\ (C14_Returned.text = "none" /\ C14_Returned.markup.kind = "none") => edits = <<>>
        /\ mret.output = C14_Returned.output
C14_Witness ==
    /\ Ended
    /\ hret.markup.kind = "approve"
    /\ hret.markup.n = get_votes(admin_votes, TRUE)
    /\ Len(edits) = 1
    /\ edits[1].call = "edit_message_reply_markup"
    /\ edits[1].markup = hret.markup

\* C15: a reaction whose category is outside the enumeration persists
\* nothing: through the whole callback the voter-to-category rows of the
\* published post stay as they are, the voter gets no answer, the
\* failure is logged and the keyboard is not updated.
C15_Stale(data) ==
    /\ Len(data) >= 2
    /\ \A c \in Categories : data[2] # <<DigitChar(c)>>
C15_Step(u) ==
    (run[u].pc \in {"vote_set", "vote_answer"} /\ C15_Stale(run[u].data)
       /\ run'[u] # run[u]) =>
        /\ user_votes' = user_votes
        /\ answer' = answer
        /\ edits' = <<>>
        /\ run'[u].pc = IF run[u].pc = "vote_set" THEN "vote_answer" ELSE "idle"
        /\ run'[u].pc = "idle" =>
               /\ mret'.by = u
               /\ mret'.raised = "none"
               /\ mret'.log = "meme_callback"
C15_InvalidCategory ==
    [][\A u \in Voters : C15_Step(u)]_vars
C15_Witness ==
    /\ Ended
    /\ token = <<>>
    /\ hret.exc = "KeyError"
    /\ mret.log = "meme_callback"
    /\ nPublished >= 1
    /\ user_votes # {}
    /\ edits = <<>>

\* C17: old_reactions rewrites "meme_vote_yes" to "meme_vote,1" and
\* "meme_vote_no" to "meme_vote,0" and leaves every other token alone;
\* applying it twice changes nothing more; and an old token reaches
\* vote_callback with the argument of its canonical spelling.
C17_Canonical(tok) ==
    IF tok = <<"m", "e", "m", "e", "_", "v", "o", "t", "e", "_", "y", "e", "s">>
    THEN <<"m", "e", "m", "e", "_", "v", "o", "t", "e", ",", "1">>
    ELSE IF tok = <<"m", "e", "m", "e", "_", "v", "o", "t", "e", "_", "n", "o">>
    THEN <<"m", "e", "m", "e", "_", "v", "o", "t", "e", ",", "0">>
    ELSE tok
C17_SameDispatch(old, digit) ==
    (token' = old /\ from_channel(nPublished)) =>
        \E u \in Voters :
            /\ run[u].pc = "idle"
            /\ run'[u].pc = "vote_set"
            /\ run'[u].data = <<<<"m", "e", "m", "e", "_", "v", "o", "t", "e">>, <<digit>>>>
C17_LegacyTokens ==
    [][Dispatched =>
          /\ old_reactions(token') = C17_Canonical(token')
          /\ old_reactions(old_reactions(token')) = old_reactions(token')
          /\ C17_SameDispatch(LegacyYes, "1")
          /\ C17_SameDispatch(LegacyNo, "0")]_vars
C17_Witness ==
    /\ token = LegacyYes
    /\ \E u \in Voters :
           /\ run[u].pc = "vote_set"
           /\ run[u].data[2] = <<"1">>
====
